---- MODULE Spec2Model ----
(***************************************************************************)
(* Model of three parts of concrexit.                                       *)
(*                                                                          *)
(* The GSuite mailing-list synchronisation (website/mailinglists/gsuite.py):*)
(* one pass of sync_mailinglists is a sequence of calls to the directory    *)
(* service; every action is one such call together with the local          *)
(* computation that follows it up to the next call.  The variable log      *)
(* records, per pass, every call that was executed, in order, with its      *)
(* outcome.  Spec runs one pass, SpecTwice two passes one after the other,  *)
(* SpecConcurrent two passes at the same time, SpecAssemble the entry of a  *)
(* pass with or without an explicit list.                                   *)
(*                                                                          *)
(* The batch actions of the payments admin (website/payments/admin.py):     *)
(* SpecPayments runs admin requests on any selection of payments and the   *)
(* payments inline of any batch; SpecPermissions asks either admin's        *)
(* has_delete_permission about one request.                                 *)
(*                                                                          *)
(* The signed media views (website/utils/media/views.py): SpecMedia sends   *)
(* one request to private_media or get_thumbnail, for any content of the    *)
(* storages.                                                                *)
(***************************************************************************)
EXTENDS Integers, Sequences, FiniteSets, TLC

\* ------------------------------------------------------------------ bounds
MaxLists == 2        \* longest desired list
MaxAddresses == 1    \* longest address list of a descriptor
MaxAliases == 1      \* longest alias list of a descriptor
MaxFailures == 1     \* transport errors the service may inject in a run
PageSize == 1        \* entries per page of a remote listing
MaxListsPair == 1    \* longest desired list when two passes are run
MaxPersisted == 1    \* most persisted mailing lists
MaxAutomatic == 1    \* most automatic lists
MaxPayments == 3     \* payments in the database
MaxBatches == 2      \* most batches in the database
MaxAge == 4          \* oldest signature of a media request, in hours
MaxTime == 2         \* latest modified time of a stored file

\* ---------------------------------------------------------------- universe
Procs == {1, 2}
GSUITE_DOMAIN == "example.org"

RemoteNames == <<"A", "B">>
DesiredNames == <<"B", "C">>
NameOrder == <<"A", "B", "C">>
EmailOrder == <<"m1@mail.test", "m2@mail.test">>
AliasLocals == <<"x">>

Range(s) == {s[i] : i \in 1..Len(s)}
InSeq(x, s) == \E i \in 1..Len(s) : s[i] = x
SeqsUpTo(S, n) == UNION {[1..k -> S] : k \in 0..n}
Min(a, b) == IF a < b THEN a ELSE b

\* f'{name}@{settings.GSUITE_DOMAIN}'
GroupKey(name) == name \o "@" \o GSUITE_DOMAIN
\* f'{a}@{settings.GSUITE_DOMAIN}' for a in group.aliases
QualifyAlias(a) == a \o "@" \o GSUITE_DOMAIN

AllKeys == {GroupKey(n) : n \in Range(NameOrder)}
AliasOrder == <<QualifyAlias("x"), QualifyAlias("y")>>

GroupData(name, description, moderated, archived, prefix, aliases, addresses) ==
    [name |-> name, description |-> description, moderated |-> moderated,
     archived |-> archived, prefix |-> prefix, aliases |-> aliases,
     addresses |-> addresses]

VARIABLES
    remoteGroups,     \* names of the groups the directory holds
    remoteMembers,    \* group key -> set of member emails
    remoteAliases,    \* group key -> set of alias addresses
    failures,         \* transport errors injected so far
    lists,            \* the desired list: the argument, or the assembled list
    lists_is_None,    \* sync_mailinglists was called without a list
    MailingList_objects,  \* the persisted mailing lists, in query order
    automatic_lists,  \* what get_automatic_lists() returns
    consulted,        \* the sources queried so far
    pc,               \* per pass: the call it is about to make
    pageToken,        \* per pass: page index of the listing in progress
    groups_list,      \* per pass: group names listed so far
    existing_groups,  \* per pass: result of the group listing
    idx,              \* per pass: position of the for loop in lists
    members_list,     \* per pass: members listed so far
    remove_list,      \* per pass: removals still to issue
    insert_list,      \* per pass: insertions still to issue
    log,              \* per pass: the calls executed, in order
    payments,         \* payment id -> its type and batch (0: no batch)
    batches,          \* the batches, by id
    message,          \* level of the message shown for the last admin request
    admin_request,    \* the last admin action requested and its queryset
    returned,         \* what the last permission check returned, if any
    storage,          \* storage class -> file name -> modified time, if any
    media_request,    \* the last request made to a media view
    media_response,   \* how the media view answered it
    storage_calls     \* the storage writes made for the last media request

vars == <<remoteGroups, remoteMembers, remoteAliases, failures, lists,
          lists_is_None, MailingList_objects, automatic_lists, consulted, pc,
          pageToken, groups_list, existing_groups, idx, members_list,
          remove_list, insert_list, log, payments, batches, message,
          admin_request, returned, storage, media_request, media_response,
          storage_calls>>

remote == <<remoteGroups, remoteMembers, remoteAliases>>
sources == <<lists_is_None, MailingList_objects, automatic_lists>>
argument == <<lists, sources, consulted>>
admin == <<payments, batches, message, admin_request, returned>>
media == <<storage, media_request, media_response, storage_calls>>
locals == <<pageToken, groups_list, existing_groups, idx, members_list,
            remove_list, insert_list>>
sync == <<remote, failures, argument, pc, locals, log>>

\* ------------------------------------------------------ directory service
SetToSeq(S, order) == SelectSeq(order, LAMBDA x : x \in S)

\* One page of a listing and whether the response carries a nextPageToken.
PageOf(all, t) == SubSeq(all, t * PageSize + 1, Min((t + 1) * PageSize, Len(all)))
\* Variant of a listing that never reports a further page.
HasNextPageNever(all, t) == FALSE
HasNextPage(all, t) == (t + 1) * PageSize < Len(all)

KeyExists(key) == \E n \in remoteGroups : GroupKey(n) = key

\* Outcomes of .execute(): a request the directory cannot serve raises
\* HttpError; any other request succeeds or, while the failure budget lasts,
\* raises HttpError.
Outcomes(servable) ==
    IF ~servable THEN {FALSE}
    ELSE IF failures < MaxFailures THEN {TRUE, FALSE} ELSE {TRUE}

\* A log entry: the call, the position in lists of the group it was made
\* for (0 for the group listing), its outcome and, for a listing, the page.
Call(entry, op, key, arg, ok, page) ==
    [entry |-> entry, op |-> op, key |-> key, arg |-> arg, ok |-> ok,
     page |-> page]

Record(p, call, ok) ==
    /\ log' = [log EXCEPT ![p] = Append(@, call)]
    /\ failures' = IF ok \/ failures >= MaxFailures THEN failures
                   ELSE failures + 1

Finished == {"returned", "raised"}

\* ------------------------------------------------------------- the passes
\* [x for x in existing if x not in new]
RemoveList(existing, new) == SelectSeq(existing, LAMBDA x : ~InSeq(x, new))
\* [x for x in new if x not in existing]
InsertList(existing, new) == SelectSeq(new, LAMBDA x : ~InSeq(x, existing))

\* sync_mailinglists: new_groups, remove_list, insert_list
new_groups == [i \in 1..Len(lists) |-> lists[i].name]
GroupRemoveList(p) == RemoveList(existing_groups[p], new_groups)
\* Variant that diffs against the groups the directory holds at the moment of
\* the test instead of the pass's own listing.
GroupInsertListFresh(p) == InsertList(SetToSeq(remoteGroups, NameOrder), new_groups)
GroupInsertList(p) == InsertList(existing_groups[p], new_groups)

\* update_group_aliases: new_aliases, remove_list, insert_list
NewAliases(group) ==
    [i \in 1..Len(group.aliases) |-> QualifyAlias(group.aliases[i])]
\* Variant that removes every existing alias, desired or not.
AliasRemoveListAll(existing_aliases, new_aliases) == existing_aliases
AliasRemoveList(existing_aliases, new_aliases) ==
    SelectSeq(existing_aliases, LAMBDA x : ~InSeq(x, new_aliases))
AliasInsertList(existing_aliases, new_aliases) ==
    SelectSeq(new_aliases, LAMBDA x : ~InSeq(x, existing_aliases))

\* update_group_members: remove_list, insert_list
MemberRemoveList(existing_members, new_members) ==
    SelectSeq(existing_members, LAMBDA x : ~InSeq(x, new_members))
\* Variant with the membership test of the insert list inverted.
MemberInsertListInverted(existing_members, new_members) ==
    SelectSeq(new_members, LAMBDA x : InSeq(x, existing_members))
MemberInsertList(existing_members, new_members) ==
    SelectSeq(new_members, LAMBDA x : ~InSeq(x, existing_members))

\* No call of sync_mailinglists has been made yet.
InitLocals ==
    /\ failures = 0
    /\ pc = [p \in Procs |-> "idle"]
    /\ pageToken = [p \in Procs |-> 0]
    /\ groups_list = [p \in Procs |-> <<>>]
    /\ existing_groups = [p \in Procs |-> <<>>]
    /\ idx = [p \in Procs |-> 0]
    /\ members_list = [p \in Procs |-> <<>>]
    /\ remove_list = [p \in Procs |-> <<>>]
    /\ insert_list = [p \in Procs |-> <<>>]
    /\ log = [p \in Procs |-> <<>>]

\* No admin request has been made and the payments tables are empty.
InitNoAdmin ==
    /\ payments = <<>>
    /\ batches = <<>>
    /\ message = ""
    /\ admin_request = [action |-> "", queryset |-> {}]
    /\ returned = <<>>

\* No media storage is configured and no media request has been made.
InitNoMedia ==
    /\ storage = <<>>
    /\ media_request = [view |-> ""]
    /\ media_response = ""
    /\ storage_calls = <<>>

\* A directory and an explicit desired list.
Init ==
    /\ \E rg \in SUBSET Range(RemoteNames), rm \in SUBSET Range(EmailOrder),
          ra \in SUBSET Range(AliasOrder) :
          /\ remoteGroups = rg
          /\ remoteMembers = [k \in AllKeys |-> IF KeyExists(k) THEN rm ELSE {}]
          /\ remoteAliases = [k \in AllKeys |-> IF KeyExists(k) THEN ra ELSE {}]
    /\ \E names \in SeqsUpTo(Range(DesiredNames), MaxLists),
          aliases \in SeqsUpTo(Range(AliasLocals), MaxAliases),
          addresses \in SeqsUpTo(Range(EmailOrder), MaxAddresses) :
          lists = [i \in 1..Len(names) |->
                     GroupData(names[i], "", FALSE, FALSE, "", aliases, addresses)]
    /\ lists_is_None = FALSE
    /\ MailingList_objects = <<>>
    /\ automatic_lists = <<>>
    /\ consulted = {}
    /\ InitLocals
    /\ InitNoAdmin
    /\ InitNoMedia

\* Variant of mailinglist_to_group with the two flags exchanged.
mailinglist_to_group_swapped(mailinglist) ==
    GroupData(mailinglist.name, mailinglist.description, mailinglist.archived,
              mailinglist.moderated, mailinglist.prefix,
              [i \in 1..Len(mailinglist.aliases) |-> mailinglist.aliases[i].alias],
              mailinglist.all_addresses)

\* mailinglist_to_group: aliases=[x.alias for x in mailinglist.aliases.all()],
\* addresses=mailinglist.all_addresses()
mailinglist_to_group(mailinglist) ==
    GroupData(mailinglist.name, mailinglist.description, mailinglist.moderated,
              mailinglist.archived, mailinglist.prefix,
              [i \in 1..Len(mailinglist.aliases) |-> mailinglist.aliases[i].alias],
              mailinglist.all_addresses)

\* _automatic_to_group: the entries of the dict, key by key
automatic_to_group(automatic_list) ==
    GroupData(automatic_list.name, automatic_list.description,
              automatic_list.moderated, automatic_list.archived,
              automatic_list.prefix, automatic_list.aliases,
              automatic_list.addresses)

\* sync_mailinglists up to its first call of the directory: with lists=None
\* the desired list is assembled from the two sources, an explicit list is
\* taken as it is.
Start(p) ==
    /\ pc[p] = "idle"
    /\ IF lists_is_None
       THEN /\ lists' = [i \in 1..Len(MailingList_objects) |->
                            mailinglist_to_group(MailingList_objects[i])]
                       \o [i \in 1..Len(automatic_lists) |->
                            automatic_to_group(automatic_lists[i])]
            /\ consulted' = consulted
                    \cup {"MailingList.objects.all", "get_automatic_lists"}
       ELSE UNCHANGED <<lists, consulted>>
    /\ pc' = [pc EXCEPT ![p] = "groups_list"]
    /\ UNCHANGED <<remote, failures, sources, admin, media, locals, log>>

\* Variant that swallows the error and goes on with the pages read so far.
GroupsListErrorIgnored(p) ==
    /\ existing_groups' = [existing_groups EXCEPT ![p] = groups_list[p]]
    /\ idx' = [idx EXCEPT ![p] = 1]
    /\ pc' = [pc EXCEPT ![p] = "loop"]
    /\ UNCHANGED <<pageToken, groups_list>>

\* except HttpError: return  (sync_mailinglists)
GroupsListError(p) ==
    /\ pc' = [pc EXCEPT ![p] = "returned"]
    /\ UNCHANGED <<pageToken, groups_list, existing_groups, idx>>

\* directory_api.groups().list(...).execute(), first or following page.
GroupsList(p) ==
    /\ pc[p] = "groups_list"
    /\ \E ok \in Outcomes(TRUE) :
         LET all == SetToSeq(remoteGroups, NameOrder)
             page == PageOf(all, pageToken[p])
             got == groups_list[p] \o page
         IN  /\ Record(p, Call(0, "groups.list", GSUITE_DOMAIN, "", ok,
                               IF ok THEN page ELSE <<>>), ok)
             /\ IF ~ok
                THEN GroupsListError(p)
                ELSE IF HasNextPage(all, pageToken[p])
                THEN /\ groups_list' = [groups_list EXCEPT ![p] = got]
                     /\ pageToken' = [pageToken EXCEPT ![p] = @ + 1]
                     /\ UNCHANGED <<pc, existing_groups, idx>>
                ELSE /\ groups_list' = [groups_list EXCEPT ![p] = got]
                     /\ existing_groups' = [existing_groups EXCEPT ![p] = got]
                     /\ idx' = [idx EXCEPT ![p] = 1]
                     /\ pc' = [pc EXCEPT ![p] = "loop"]
                     /\ UNCHANGED pageToken
    /\ UNCHANGED <<remote, argument, admin, media, members_list, remove_list, insert_list>>

\* Variant in which a failed call ends its for loop.
RemainingUntilFailure(ok, todo) == IF ok THEN Tail(todo) ELSE <<>>

\* Variant that issues a failed call again.
RemainingRetry(ok, todo) == IF ok THEN Tail(todo) ELSE todo

\* try: ....execute() / except HttpError: pass -- whatever the outcome of
\* one remove or insert call, the for loop goes on with the rest of its list.
Remaining(ok, todo) == Tail(todo)

\* Where a reconciliation goes next: the remaining removals, then the
\* remaining insertions, then what follows the reconciliation.
NextPc(kind, rem, ins, after) ==
    IF rem # <<>> THEN kind \o "_delete"
    ELSE IF ins # <<>> THEN kind \o "_insert"
    ELSE after

\* delete_group: directory_api.groups().delete(...).execute(), outside any try.
delete_group(p, l) ==
    \E ok \in Outcomes(KeyExists(GroupKey(l.name))) :
       /\ Record(p, Call(idx[p], "groups.delete", GroupKey(l.name), "", ok, <<>>), ok)
       /\ IF ok
          THEN /\ remoteGroups' = {n \in remoteGroups : GroupKey(n) # GroupKey(l.name)}
               /\ remoteMembers' = [remoteMembers EXCEPT ![GroupKey(l.name)] = {}]
               /\ remoteAliases' = [remoteAliases EXCEPT ![GroupKey(l.name)] = {}]
               /\ idx' = [idx EXCEPT ![p] = @ + 1]
               /\ UNCHANGED pc
          ELSE /\ pc' = [pc EXCEPT ![p] = "raised"]
               /\ UNCHANGED <<remote, idx>>
       /\ UNCHANGED <<pageToken, members_list>>

\* Variant of create_group that goes on to reconcile the aliases of the new
\* group before its members.
create_group_with_aliases(p, l) ==
    \E ok \in Outcomes(~KeyExists(GroupKey(l.name))) :
       /\ Record(p, Call(idx[p], "groups.insert", GroupKey(l.name), l.name, ok, <<>>), ok)
       /\ IF ok
          THEN /\ remoteGroups' = remoteGroups \cup {l.name}
               /\ remoteMembers' = [remoteMembers EXCEPT ![GroupKey(l.name)] = {}]
               /\ remoteAliases' = [remoteAliases EXCEPT ![GroupKey(l.name)] = {}]
               /\ pc' = [pc EXCEPT ![p] = "aliases_list"]
          ELSE /\ pc' = [pc EXCEPT ![p] = "raised"]
               /\ UNCHANGED remote
       /\ UNCHANGED <<idx, pageToken, members_list>>

\* create_group up to its call of update_group_members:
\* directory_api.groups().insert(...).execute(), outside any try, then sleep.
create_group(p, l) ==
    \E ok \in Outcomes(~KeyExists(GroupKey(l.name))) :
       /\ Record(p, Call(idx[p], "groups.insert", GroupKey(l.name), l.name, ok, <<>>), ok)
       /\ IF ok
          THEN /\ remoteGroups' = remoteGroups \cup {l.name}
               /\ remoteMembers' = [remoteMembers EXCEPT ![GroupKey(l.name)] = {}]
               /\ remoteAliases' = [remoteAliases EXCEPT ![GroupKey(l.name)] = {}]
               /\ pc' = [pc EXCEPT ![p] = "members_list"]
               /\ pageToken' = [pageToken EXCEPT ![p] = 0]
               /\ members_list' = [members_list EXCEPT ![p] = <<>>]
          ELSE /\ pc' = [pc EXCEPT ![p] = "raised"]
               /\ UNCHANGED <<remote, pageToken, members_list>>
       /\ UNCHANGED idx

\* update_group up to its call of update_group_aliases: the groups().update
\* request is built and never executed, so no call reaches the directory.
update_group(p, old_name, l) ==
    /\ pc' = [pc EXCEPT ![p] = "aliases_list"]
    /\ UNCHANGED <<remote, failures, log, pageToken, members_list, idx>>

\* Variant that, after the last group, deletes the remote groups that the
\* desired list does not name.
LoopDeletesStale(p) ==
    /\ pc[p] = "loop"
    /\ IF idx[p] > Len(lists)
       THEN LET stale == SelectSeq(GroupRemoveList(p), LAMBDA n : n \in remoteGroups)
            IN  IF stale # <<>>
                THEN delete_group(p, [name |-> Head(stale)])
                ELSE /\ pc' = [pc EXCEPT ![p] = "returned"]
                     /\ UNCHANGED <<remote, failures, log, pageToken,
                                    members_list, idx>>
       ELSE LET l == lists[idx[p]]
            IN  IF InSeq(l.name, GroupInsertList(p)) THEN create_group(p, l)
                ELSE update_group(p, l.name, l)
    /\ UNCHANGED <<argument, admin, media, groups_list, existing_groups, remove_list, insert_list>>

\* for l in lists: if / elif / else, and the return after the last group.
Loop(p) ==
    /\ pc[p] = "loop"
    /\ IF idx[p] > Len(lists)
       THEN /\ pc' = [pc EXCEPT ![p] = "returned"]
            /\ UNCHANGED <<remote, failures, log, pageToken, members_list, idx>>
       ELSE LET l == lists[idx[p]]
            IN  IF InSeq(l.name, GroupRemoveList(p)) THEN delete_group(p, l)
                ELSE IF InSeq(l.name, GroupInsertList(p)) THEN create_group(p, l)
                ELSE update_group(p, l.name, l)
    /\ UNCHANGED <<argument, admin, media, groups_list, existing_groups, remove_list, insert_list>>

\* update_group_aliases: aliases().list(...).execute(), outside any try; only
\* the one response is read.  Then the two diffs.
AliasesList(p) ==
    /\ pc[p] = "aliases_list"
    /\ LET group == lists[idx[p]]
           key == GroupKey(group.name)
       IN \E ok \in Outcomes(KeyExists(key)) :
           LET existing_aliases == PageOf(SetToSeq(remoteAliases[key], AliasOrder), 0)
               new_aliases == NewAliases(group)
               rem == AliasRemoveList(existing_aliases, new_aliases)
               ins == AliasInsertList(existing_aliases, new_aliases)
           IN  /\ Record(p, Call(idx[p], "aliases.list", key, "", ok,
                                 IF ok THEN existing_aliases ELSE <<>>), ok)
               /\ IF ok
                  THEN /\ remove_list' = [remove_list EXCEPT ![p] = rem]
                       /\ insert_list' = [insert_list EXCEPT ![p] = ins]
                       /\ pc' = [pc EXCEPT ![p] =
                                   NextPc("aliases", rem, ins, "members_list")]
                       /\ pageToken' = [pageToken EXCEPT ![p] = 0]
                       /\ members_list' = [members_list EXCEPT ![p] = <<>>]
                  ELSE /\ pc' = [pc EXCEPT ![p] = "raised"]
                       /\ UNCHANGED <<remove_list, insert_list, pageToken,
                                      members_list>>
    /\ UNCHANGED <<remote, argument, admin, media, groups_list, existing_groups, idx>>

\* for remove_alias in remove_list: try aliases().delete(...).execute()
AliasesDelete(p) ==
    /\ pc[p] = "aliases_delete"
    /\ LET key == GroupKey(lists[idx[p]].name)
           remove_alias == Head(remove_list[p])
       IN \E ok \in Outcomes(remove_alias \in remoteAliases[key]) :
           /\ Record(p, Call(idx[p], "aliases.delete", key, remove_alias, ok, <<>>), ok)
           /\ remoteAliases' = IF ok
                THEN [remoteAliases EXCEPT ![key] = @ \ {remove_alias}]
                ELSE remoteAliases
           /\ remove_list' = [remove_list EXCEPT ![p] = Remaining(ok, @)]
           /\ pc' = [pc EXCEPT ![p] = NextPc("aliases", Remaining(ok, remove_list[p]),
                                             insert_list[p], "members_list")]
    /\ UNCHANGED <<remoteGroups, remoteMembers, argument, admin, media, pageToken, groups_list,
                   existing_groups, idx, members_list, insert_list>>

\* for insert_alias in insert_list: try aliases().insert(...).execute()
AliasesInsert(p) ==
    /\ pc[p] = "aliases_insert"
    /\ LET key == GroupKey(lists[idx[p]].name)
           insert_alias == Head(insert_list[p])
       IN \E ok \in Outcomes(KeyExists(key) /\ insert_alias \notin remoteAliases[key]) :
           /\ Record(p, Call(idx[p], "aliases.insert", key, insert_alias, ok, <<>>), ok)
           /\ remoteAliases' = IF ok
                THEN [remoteAliases EXCEPT ![key] = @ \cup {insert_alias}]
                ELSE remoteAliases
           /\ insert_list' = [insert_list EXCEPT ![p] = Remaining(ok, @)]
           /\ pc' = [pc EXCEPT ![p] = NextPc("aliases", <<>>,
                                             Remaining(ok, insert_list[p]), "members_list")]
    /\ UNCHANGED <<remoteGroups, remoteMembers, argument, admin, media, pageToken, groups_list,
                   existing_groups, idx, members_list, remove_list>>

\* Variant without the try: the error of the listing leaves the pass.
MembersListErrorRaises(p) ==
    /\ pc' = [pc EXCEPT ![p] = "raised"]
    /\ UNCHANGED <<idx, pageToken, members_list, remove_list, insert_list>>

\* Variant that swallows the error and reconciles against the pages read so
\* far.
MembersListErrorIgnored(p) ==
    LET group == lists[idx[p]]
        rem == MemberRemoveList(members_list[p], group.addresses)
        ins == MemberInsertList(members_list[p], group.addresses)
    IN  /\ remove_list' = [remove_list EXCEPT ![p] = rem]
        /\ insert_list' = [insert_list EXCEPT ![p] = ins]
        /\ pc' = [pc EXCEPT ![p] = NextPc("members", rem, ins, "loop")]
        /\ idx' = [idx EXCEPT ![p] = IF rem = <<>> /\ ins = <<>> THEN @ + 1 ELSE @]
        /\ UNCHANGED <<pageToken, members_list>>

\* except HttpError: return  (update_group_members); the caller goes on
\* with the next group.
MembersListError(p) ==
    /\ pc' = [pc EXCEPT ![p] = "loop"]
    /\ idx' = [idx EXCEPT ![p] = @ + 1]
    /\ UNCHANGED <<pageToken, members_list, remove_list, insert_list>>

\* update_group_members: members().list(...).execute() inside the try, first
\* or following page; on the last page the two diffs.  HttpError: return.
MembersList(p) ==
    /\ pc[p] = "members_list"
    /\ LET group == lists[idx[p]]
           key == GroupKey(group.name)
       IN \E ok \in Outcomes(KeyExists(key)) :
           LET all == SetToSeq(remoteMembers[key], EmailOrder)
               page == PageOf(all, pageToken[p])
               existing_members == members_list[p] \o page
               new_members == group.addresses
               rem == MemberRemoveList(existing_members, new_members)
               ins == MemberInsertList(existing_members, new_members)
           IN  /\ Record(p, Call(idx[p], "members.list", key, "", ok,
                                 IF ok THEN page ELSE <<>>), ok)
               /\ IF ~ok
                  THEN MembersListError(p)
                  ELSE IF HasNextPage(all, pageToken[p])
                  THEN /\ members_list' = [members_list EXCEPT ![p] = existing_members]
                       /\ pageToken' = [pageToken EXCEPT ![p] = @ + 1]
                       /\ UNCHANGED <<pc, idx, remove_list, insert_list>>
                  ELSE /\ members_list' = [members_list EXCEPT ![p] = existing_members]
                       /\ remove_list' = [remove_list EXCEPT ![p] = rem]
                       /\ insert_list' = [insert_list EXCEPT ![p] = ins]
                       /\ pc' = [pc EXCEPT ![p] = NextPc("members", rem, ins, "loop")]
                       /\ idx' = [idx EXCEPT ![p] =
                                     IF rem = <<>> /\ ins = <<>> THEN @ + 1 ELSE @]
                       /\ UNCHANGED pageToken
    /\ UNCHANGED <<remote, argument, admin, media, groups_list, existing_groups>>

\* for remove_member in remove_list: try members().delete(...).execute()
MembersDelete(p) ==
    /\ pc[p] = "members_delete"
    /\ LET key == GroupKey(lists[idx[p]].name)
           remove_member == Head(remove_list[p])
       IN \E ok \in Outcomes(remove_member \in remoteMembers[key]) :
          LET rest == Remaining(ok, remove_list[p]) IN
           /\ Record(p, Call(idx[p], "members.delete", key, remove_member, ok, <<>>), ok)
           /\ remoteMembers' = IF ok
                THEN [remoteMembers EXCEPT ![key] = @ \ {remove_member}]
                ELSE remoteMembers
           /\ remove_list' = [remove_list EXCEPT ![p] = rest]
           /\ pc' = [pc EXCEPT ![p] = NextPc("members", rest, insert_list[p], "loop")]
           /\ idx' = [idx EXCEPT ![p] =
                         IF rest = <<>> /\ insert_list[p] = <<>> THEN @ + 1 ELSE @]
    /\ UNCHANGED <<remoteGroups, remoteAliases, argument, admin, media, pageToken, groups_list,
                   existing_groups, members_list, insert_list>>

\* for insert_member in insert_list: try members().insert(...).execute()
MembersInsert(p) ==
    /\ pc[p] = "members_insert"
    /\ LET key == GroupKey(lists[idx[p]].name)
           insert_member == Head(insert_list[p])
       IN \E ok \in Outcomes(KeyExists(key) /\ insert_member \notin remoteMembers[key]) :
          LET rest == Remaining(ok, insert_list[p]) IN
           /\ Record(p, Call(idx[p], "members.insert", key, insert_member, ok, <<>>), ok)
           /\ remoteMembers' = IF ok
                THEN [remoteMembers EXCEPT ![key] = @ \cup {insert_member}]
                ELSE remoteMembers
           /\ insert_list' = [insert_list EXCEPT ![p] = rest]
           /\ pc' = [pc EXCEPT ![p] = NextPc("members", <<>>, rest, "loop")]
           /\ idx' = [idx EXCEPT ![p] = IF rest = <<>> THEN @ + 1 ELSE @]
    /\ UNCHANGED <<remoteGroups, remoteAliases, argument, admin, media, pageToken, groups_list,
                   existing_groups, members_list, remove_list>>

Pass(p) ==
    \/ GroupsList(p)
    \/ Loop(p)
    \/ AliasesList(p)
    \/ AliasesDelete(p)
    \/ AliasesInsert(p)
    \/ MembersList(p)
    \/ MembersDelete(p)
    \/ MembersInsert(p)

\* One pass.
Next ==
    \/ Start(1)
    \/ Pass(1)

Spec == Init /\ [][Next]_vars

\* A persisted mailing list as mailinglist_to_group reads it: its fields, its
\* alias objects and the result of all_addresses().
MailingList(name, moderated, archived, aliases, addresses) ==
    [name |-> name, description |-> name \o " list", moderated |-> moderated,
     archived |-> archived, prefix |-> "[" \o name \o "]",
     aliases |-> [i \in 1..Len(aliases) |-> [alias |-> aliases[i]]],
     all_addresses |-> addresses]
\* An automatic list as _automatic_to_group reads it: a dict.
AutomaticList(name, moderated, archived, aliases, addresses) ==
    [name |-> name, description |-> "automatic " \o name,
     moderated |-> moderated, archived |-> archived, prefix |-> "",
     aliases |-> aliases, addresses |-> addresses]

\* The states in which sync_mailinglists is called with or without a list,
\* the two sources holding any lists.  Without a list, lists holds none
\* until the call assembles it.
InitAssemble ==
    /\ remoteGroups = {}
    /\ remoteMembers = [k \in AllKeys |-> {}]
    /\ remoteAliases = [k \in AllKeys |-> {}]
    /\ \E aliases \in SeqsUpTo(Range(AliasLocals), MaxAliases),
          addresses \in SeqsUpTo(Range(EmailOrder), MaxAddresses) :
          /\ \E names \in SeqsUpTo(Range(DesiredNames), MaxPersisted),
                moderated \in BOOLEAN, archived \in BOOLEAN :
                MailingList_objects = [i \in 1..Len(names) |->
                    MailingList(names[i], moderated, archived, aliases, addresses)]
          /\ \E names \in SeqsUpTo(Range(DesiredNames), MaxAutomatic),
                moderated \in BOOLEAN, archived \in BOOLEAN :
                automatic_lists = [i \in 1..Len(names) |->
                    AutomaticList(names[i], moderated, archived, aliases, addresses)]
          /\ \E given \in BOOLEAN, names \in SeqsUpTo(Range(DesiredNames), MaxLists) :
                /\ lists_is_None = ~given
                /\ lists = IF given
                           THEN [i \in 1..Len(names) |->
                                   GroupData(names[i], "", FALSE, FALSE, "",
                                             aliases, addresses)]
                           ELSE <<>>
    /\ consulted = {}
    /\ InitLocals
    /\ InitNoAdmin
    /\ InitNoMedia

\* The entry of sync_mailinglists alone.
NextAssemble == Start(1)

SpecAssemble == InitAssemble /\ [][NextAssemble]_vars

\* The states from which two passes are run: those of Init with a desired
\* list of at most MaxListsPair groups.
InitPair == Init /\ Len(lists) <= MaxListsPair

\* Two passes over the same desired list, the second entered after the first
\* has ended.
NextTwice ==
    \/ Start(1)
    \/ pc[1] \in Finished /\ Start(2)
    \/ \E p \in Procs : Pass(p)

SpecTwice == InitPair /\ [][NextTwice]_vars

\* Two passes over the same desired list running at the same time: their
\* calls interleave in any order.
NextConcurrent ==
    \/ \E p \in Procs : Start(p)
    \/ \E p \in Procs : Pass(p)

SpecConcurrent == InitPair /\ [][NextConcurrent]_vars

\* --------------------------------------------------------- payments admin
\* Payment.TPAY and another payment type
TPAY == "tpay_payment"
PaymentTypes == {TPAY, "cash_payment"}
PaymentIds == 1..MaxPayments
Payment(type, batch) == [type |-> type, batch |-> batch]
Batch(processed) == [processed |-> processed]

\* No synchronisation is going on.
InitSyncIdle ==
    /\ remoteGroups = {}
    /\ remoteMembers = [k \in AllKeys |-> {}]
    /\ remoteAliases = [k \in AllKeys |-> {}]
    /\ lists = <<>>
    /\ lists_is_None = FALSE
    /\ MailingList_objects = <<>>
    /\ automatic_lists = <<>>
    /\ consulted = {}
    /\ InitLocals

\* Any batches, processed or not, and any payments; a payment that is not a
\* Thalia Pay payment has no batch.
InitPayments ==
    /\ InitSyncIdle
    /\ InitNoMedia
    /\ \E processed \in SeqsUpTo(BOOLEAN, MaxBatches) :
          batches = [i \in 1..Len(processed) |-> Batch(processed[i])]
    /\ payments \in [PaymentIds ->
          {Payment(TPAY, b) : b \in 0..Len(batches)}
            \cup {Payment(t, 0) : t \in PaymentTypes \ {TPAY}}]
    /\ message = ""
    /\ admin_request = [action |-> "", queryset |-> {}]
    /\ returned = <<>>

\* Variant that takes every selected payment.
tpays_unfiltered(queryset) == queryset
\* tpays = queryset.filter(type=Payment.TPAY)
tpays(queryset) == {i \in queryset : payments[i].type = TPAY}

\* _show_message: an error when n is 0, a success message otherwise.
show_message(n) == IF n = 0 THEN "ERROR" ELSE "SUCCESS"

\* PaymentAdmin.add_to_new_batch
add_to_new_batch(queryset) ==
    /\ Len(batches) < MaxBatches
    /\ IF Cardinality(tpays(queryset)) > 0
       THEN /\ batches' = Append(batches, Batch(FALSE))
            /\ payments' = [i \in PaymentIds |->
                              IF i \in tpays(queryset)
                              THEN [payments[i] EXCEPT !.batch = Len(batches) + 1]
                              ELSE payments[i]]
       ELSE UNCHANGED <<payments, batches>>
    /\ message' = show_message(Cardinality(tpays(queryset)))
    /\ admin_request' = [action |-> "add_to_new_batch", queryset |-> queryset]
    /\ returned' = <<>>
    /\ UNCHANGED <<sync, media>>

\* Batch.objects.last(): the batch with the highest id, 0 for None.
Batch_objects_last == Len(batches)

\* tpays.update(batch=batch)
tpays_update(queryset, batch) ==
    [i \in PaymentIds |->
        IF i \in tpays(queryset)
        THEN [payments[i] EXCEPT !.batch = batch]
        ELSE payments[i]]

\* Variant that does not look at the last batch's processed flag.
add_to_last_batch_unchecked(queryset) ==
    /\ IF Cardinality(tpays(queryset)) > 0 /\ Batch_objects_last # 0
       THEN /\ payments' = tpays_update(queryset, Batch_objects_last)
            /\ message' = "SUCCESS"
       ELSE /\ UNCHANGED payments
            /\ message' = "ERROR"
    /\ admin_request' = [action |-> "add_to_last_batch", queryset |-> queryset]
    /\ returned' = <<>>
    /\ UNCHANGED <<batches, sync, media>>

\* PaymentAdmin.add_to_last_batch
add_to_last_batch(queryset) ==
    /\ IF Cardinality(tpays(queryset)) > 0
       THEN IF Batch_objects_last = 0
            THEN /\ UNCHANGED payments
                 /\ message' = "ERROR"
            ELSE IF ~batches[Batch_objects_last].processed
            THEN /\ payments' = tpays_update(queryset, Batch_objects_last)
                 /\ message' = "SUCCESS"
            ELSE /\ UNCHANGED payments
                 /\ message' = "ERROR"
       ELSE /\ UNCHANGED payments
            /\ message' = "ERROR"
    /\ admin_request' = [action |-> "add_to_last_batch", queryset |-> queryset]
    /\ returned' = <<>>
    /\ UNCHANGED <<batches, sync, media>>

\* BatchAdmin.save_formset for the payments inline of a batch: instances are
\* the payments of the batch whose inline form was changed.
save_formset(obj, instances) ==
    /\ instances \subseteq {i \in PaymentIds : payments[i].batch = obj}
    /\ payments' = [i \in PaymentIds |->
                      IF /\ i \in instances
                         /\ payments[i].batch # 0
                         /\ ~batches[payments[i].batch].processed
                      THEN [payments[i] EXCEPT !.batch = 0]
                      ELSE payments[i]]
    /\ message' = ""
    /\ admin_request' = [action |-> "save_formset", queryset |-> instances]
    /\ returned' = <<>>
    /\ UNCHANGED <<batches, sync, media>>

\* The admin actions, on any selection of payments, and the inline of any
\* batch.
NextPayments ==
    \/ \E queryset \in SUBSET PaymentIds :
          \/ add_to_new_batch(queryset)
          \/ add_to_last_batch(queryset)
    \/ \E obj \in 1..Len(batches) : \E instances \in SUBSET PaymentIds :
          save_formset(obj, instances)

SpecPayments == InitPayments /\ [][NextPayments]_vars

\* ------------------------------------------------- delete permissions
\* A request path "/admin/payments/payment/" is the sequence of its
\* segments, each of which is followed by a slash.
PaymentChangelist == <<"admin", "payments", "payment">>
BatchChangelist == <<"admin", "payments", "batch">>
AdminPaths == {PaymentChangelist, BatchChangelist}

\* (word + "/") in request.path: a segment ends in word; of the segments above
\* only the word itself does.
InPath(word, path) == \E k \in 1..Len(path) : path[k] = word

\* The requests that reach has_delete_permission of the admin with this
\* changelist: a GET of one of its pages, a POST of the delete_selected
\* action with the selected ids, or a POST of another action on all of them.
\* user_has_perm is what the user's own permissions say
\* (super().has_delete_permission).
PermissionRequests(ids, changelist) ==
    {[method |-> "GET", path |-> changelist, action |-> "", selected |-> {},
      user_has_perm |-> perm] : perm \in BOOLEAN}
    \cup
    {[method |-> "POST", path |-> path, action |-> "delete_selected",
      selected |-> selected, user_has_perm |-> perm] :
        path \in AdminPaths, selected \in SUBSET ids, perm \in BOOLEAN}
    \cup
    {[method |-> "POST", path |-> path, action |-> "add_to_new_batch",
      selected |-> ids, user_has_perm |-> perm] :
        path \in AdminPaths, perm \in BOOLEAN}

\* payment.batch and payment.batch.processed
batch_processed(payment) ==
    payments[payment].batch # 0 /\ batches[payments[payment].batch].processed

\* Variant that asks the user's permissions first.
PaymentAdmin_has_delete_permission_super_first(request, obj) ==
    IF request.user_has_perm THEN TRUE
    ELSE ~(obj # 0 /\ batch_processed(obj)) /\ FALSE

\* PaymentAdmin.has_delete_permission; obj 0 is None.
PaymentAdmin_has_delete_permission(request, obj) ==
    IF obj # 0 /\ batch_processed(obj) THEN FALSE
    ELSE IF /\ InPath("payment", request.path)
            /\ request.method = "POST"
            /\ request.action = "delete_selected"
            /\ \E payment_id \in request.selected : batch_processed(payment_id)
    THEN FALSE
    ELSE request.user_has_perm

\* BatchAdmin.has_delete_permission; obj 0 is None.
BatchAdmin_has_delete_permission(request, obj) ==
    IF obj # 0 /\ batches[obj].processed THEN FALSE
    ELSE IF /\ InPath("batch", request.path)
            /\ request.method = "POST"
            /\ request.action = "delete_selected"
            /\ \E payment_id \in request.selected : batches[payment_id].processed
    THEN FALSE
    ELSE request.user_has_perm

\* The objects a request asks the permission for: none (the request alone),
\* the object of a change or delete page, or each object of a bulk delete.
CheckedObjects(request, ids, changelist) ==
    {0} \cup (IF request.method = "GET" THEN ids
              ELSE IF /\ request.action = "delete_selected"
                      /\ request.path = changelist
              THEN request.selected
              ELSE {})

\* A permission check of the payment admin. A check reads nothing of an
\* earlier one, so a behaviour makes one.
check_payment_permission(request, obj) ==
    /\ admin_request.action = ""
    /\ obj \in CheckedObjects(request, PaymentIds, PaymentChangelist)
    /\ returned' = <<PaymentAdmin_has_delete_permission(request, obj)>>
    /\ admin_request' = [action |-> "PaymentAdmin.has_delete_permission",
                         queryset |-> request.selected,
                         request |-> request, obj |-> obj]
    /\ message' = ""
    /\ UNCHANGED <<payments, batches, sync, media>>

\* A permission check of the batch admin.
check_batch_permission(request, obj) ==
    /\ admin_request.action = ""
    /\ obj \in CheckedObjects(request, 1..Len(batches), BatchChangelist)
    /\ returned' = <<BatchAdmin_has_delete_permission(request, obj)>>
    /\ admin_request' = [action |-> "BatchAdmin.has_delete_permission",
                         queryset |-> request.selected,
                         request |-> request, obj |-> obj]
    /\ message' = ""
    /\ UNCHANGED <<payments, batches, sync, media>>

NextPermissions ==
    \/ \E request \in PermissionRequests(PaymentIds, PaymentChangelist) :
          \E obj \in {0} \cup PaymentIds : check_payment_permission(request, obj)
    \/ \E request \in PermissionRequests(1..Len(batches), BatchChangelist) :
          \E obj \in 0..Len(batches) : check_batch_permission(request, obj)

\* The checks do not look at a payment's type: any batches and any
\* assignment of Thalia Pay payments to them.
InitPermissions ==
    /\ InitPayments
    /\ \A i \in PaymentIds : payments[i].type = TPAY

SpecPermissions == InitPermissions /\ [][NextPermissions]_vars

\* ------------------------------------------------------------ media views
\* max_age=timedelta(hours=3), in hours
max_age == 3
\* A file name is the sequence of its segments: "thumbs/photo.jpg".
Original == <<"photo.jpg">>
Thumb == <<"thumbs", "photo.jpg">>
FileNames == {Original, Thumb}
\* The paths a request can ask for: a stored name or another one.
RequestPaths == FileNames \cup {<<"other.jpg">>}
\* The storage classes a signature can name; only the second has a bucket.
StorageClasses == {"FileSystemStorage", "S3Boto3Storage"}
hasattr_bucket(class) == class = "S3Boto3Storage"
\* Modified times; 0 is the epoch.
Times == 0..MaxTime
\* A file is absent (<<>>) or present with its modified time (<<t>>).
FileStates == {<<>>} \cup {<<t>> : t \in Times}
exists(class, name) == storage[class][name] # <<>>

\* What the signed value of a media URL carries.
SigInfos ==
    [storage : StorageClasses, serve_path : FileNames, name : {Original},
     thumb_path : {Thumb}]
\* A 'sig' parameter: whether it was made with the site's key and is
\* untampered, the age of its timestamp in hours, and its value.
Signatures == [genuine : BOOLEAN, age : 0..MaxAge, sig_info : SigInfos]
\* A request: GET_sig is <<>> when there is no 'sig' parameter.
MediaRequests ==
    [GET_sig : {<<>>} \cup {<<sig>> : sig \in Signatures},
     request_path : RequestPaths]

\* Variant that does not pass max_age.
signing_loads_no_max_age(signature) ==
    IF signature.genuine THEN <<signature.sig_info>> ELSE <<>>
\* signing.loads(signature, max_age=timedelta(hours=3)): the value, or <<>>
\* for BadSignature, which SignatureExpired (age > max_age) is a case of.
signing_loads(signature) ==
    IF signature.genuine /\ ~(signature.age > max_age)
    THEN <<signature.sig_info>>
    ELSE <<>>

\* _get_signature_info: <<>> stands for raise PermissionDenied.
get_signature_info(request) ==
    IF request.GET_sig # <<>> THEN signing_loads(request.GET_sig[1]) ELSE <<>>

\* Any files in the storages; no request made.
InitMedia ==
    /\ InitSyncIdle
    /\ InitNoAdmin
    /\ storage \in [StorageClasses -> [FileNames -> FileStates]]
    /\ media_request = [view |-> ""]
    /\ media_response = ""
    /\ storage_calls = <<>>

\* A view reads nothing of an earlier request but what the storage holds,
\* and InitMedia draws every content of the storage: a behaviour makes one
\* request.
\* private_media
private_media(request) ==
    /\ media_request.view = ""
    /\ LET sig_info == get_signature_info(request) IN
         media_response' =
           IF sig_info = <<>> THEN "PermissionDenied"
           ELSE IF \/ ~exists(sig_info[1].storage, sig_info[1].serve_path)
                   \/ ~(sig_info[1].serve_path = request.request_path)
           THEN "Http404"
           ELSE IF hasattr_bucket(sig_info[1].storage) THEN "redirect"
           ELSE "sendfile"
    /\ media_request' = [view |-> "private_media", request |-> request]
    /\ storage_calls' = <<>>
    /\ UNCHANGED <<storage, sync, admin>>

\* timezone.datetime.min, the modified time assumed for a file that
\* storage.modified_time could not be asked about
datetime_min == -1
\* path.endswith(request_path)
endswith(path, request_path) ==
    /\ Len(request_path) <= Len(path)
    /\ SubSeq(path, Len(path) - Len(request_path) + 1, Len(path)) = request_path

\* Variant that also regenerates a thumbnail as recent as the original.
thumbnail_outdated_or_equal(original_modified_time, thumb_modified_time) ==
    original_modified_time >= thumb_modified_time
\* original_modified_time > thumb_modified_time
thumbnail_outdated(original_modified_time, thumb_modified_time) ==
    original_modified_time > thumb_modified_time

\* The answer of a media view that leaves the storage alone.
Respond(response) ==
    /\ media_response' = response
    /\ storage_calls' = <<>>
    /\ UNCHANGED storage

\* get_thumbnail. The two modified times are read in one try block: when the
\* original is missing neither is read. The time of the new thumbnail is not
\* before that of the original it is made from.
get_thumbnail(request) ==
    /\ media_request.view = ""
    /\ LET sig_info == get_signature_info(request) IN
         IF sig_info = <<>> THEN Respond("PermissionDenied")
         ELSE IF ~endswith(sig_info[1].thumb_path, request.request_path)
         THEN Respond("Http404")
         ELSE
           LET class == sig_info[1].storage
               name == sig_info[1].name
               thumb_path == sig_info[1].thumb_path
               original_modified_time ==
                   IF exists(class, name) THEN storage[class][name][1]
                   ELSE datetime_min
               thumb_modified_time ==
                   IF exists(class, name) /\ exists(class, thumb_path)
                   THEN storage[class][thumb_path][1]
                   ELSE datetime_min
           IN
             IF original_modified_time = datetime_min
             THEN \* datetime.min.timestamp() is out of the platform's range:
                  \* it raises, or gives a number that is not 0
                  \/ Respond("ValueError")
                  \/ Respond("redirect")
             ELSE IF original_modified_time = 0
             THEN Respond("Http404")
             ELSE IF thumbnail_outdated(original_modified_time, thumb_modified_time)
             THEN \E saved \in Times :
                    /\ saved >= original_modified_time
                    /\ storage' = [storage EXCEPT ![class][thumb_path] = <<saved>>]
                    /\ storage_calls' = << <<"delete", class, thumb_path>>,
                                           <<"save", class, thumb_path>> >>
                    /\ media_response' = "redirect"
             ELSE Respond("redirect")
    /\ media_request' = [view |-> "get_thumbnail", request |-> request]
    /\ UNCHANGED <<sync, admin>>

NextMedia ==
    \E request \in MediaRequests :
        \/ private_media(request)
        \/ get_thumbnail(request)

SpecMedia == InitMedia /\ [][NextMedia]_vars

\* ------------------------------------------------------ reading the log
Positions(p) == 1..Len(log[p])
Idx(p, op, key) ==
    {i \in Positions(p) : log[p][i].op = op /\ log[p][i].key = key}
EntryCalls(p, e, ops) ==
    SelectSeq(log[p], LAMBDA c : c.entry = e /\ c.op \in ops)
AllOk(p) == \A i \in Positions(p) : log[p][i].ok
Occurrences(name) == Cardinality({e \in 1..Len(lists) : lists[e].name = name})

GroupCalls == {"groups.insert", "groups.update", "groups.delete"}
AliasCalls == {"aliases.list", "aliases.insert", "aliases.delete"}
MemberCalls == {"members.list", "members.insert", "members.delete"}
Listings == {"groups.list", "aliases.list", "members.list"}
Mutations == (GroupCalls \cup AliasCalls \cup MemberCalls) \ Listings

\* The group listing of pass p has succeeded on every page.
GroupsListed(p) ==
    /\ pc[p] \notin {"idle", "groups_list"}
    /\ \A i \in Idx(p, "groups.list", GSUITE_DOMAIN) : log[p][i].ok

RECURSIVE Flatten(_)
Flatten(pages) ==
    IF pages = <<>> THEN <<>> ELSE Head(pages) \o Flatten(Tail(pages))
\* What the listing made for entry e returned, all pages together.
Listed(p, e, op) ==
    LET calls == EntryCalls(p, e, {op})
    IN  Flatten([i \in 1..Len(calls) |-> calls[i].page])
ListingOk(p, e, op) ==
    LET calls == EntryCalls(p, e, {op})
    IN  calls # <<>> /\ \A i \in 1..Len(calls) : calls[i].ok
\* Pass p has left the member reconciliation of entry e behind.
MembersLeft(p, e) == idx[p] > e
\* Pass p has completed the member listing of entry e.
MembersListingDone(p, e) ==
    /\ ListingOk(p, e, "members.list")
    /\ ~(idx[p] = e /\ pc[p] = "members_list")
AliasesLeft(p, e) ==
    ~(idx[p] = e /\ pc[p] \in {"aliases_list", "aliases_delete", "aliases_insert"})

\* The calls a reconciliation has to issue: one delete per stale entry, then
\* one insert per missing entry.
Plan(kind, existing, desired) ==
    LET rem == RemoveList(existing, desired)
        ins == InsertList(existing, desired)
    IN  [i \in 1..Len(rem) |-> <<kind \o ".delete", rem[i]>>]
        \o [i \in 1..Len(ins) |-> <<kind \o ".insert", ins[i]>>]
Issued(p, e, kind) ==
    LET calls == EntryCalls(p, e, {kind \o ".delete", kind \o ".insert"})
    IN  [i \in 1..Len(calls) |-> <<calls[i].op, calls[i].arg>>]
IsPrefix(s, t) == Len(s) <= Len(t) /\ SubSeq(t, 1, Len(s)) = s
DesiredAliases(e) ==
    [i \in 1..Len(lists[e].aliases) |-> QualifyAlias(lists[e].aliases[i])]

\* ------------------------------------------------------------------ C1
\* C1 (as claimed): in a pass whose group listing succeeds, every group that
\* exists remotely and is absent from the desired list gets a groups.delete
\* call, and no member or alias call is issued for it.
C1_StaleGroupsDeleted ==
    (pc[1] = "returned" /\ GroupsListed(1)) =>
        \A n \in Range(existing_groups[1]) :
            ~InSeq(n, new_groups) =>
                /\ Idx(1, "groups.delete", GroupKey(n)) # {}
                /\ \A i \in Positions(1) :
                      log[1][i].key = GroupKey(n) =>
                          log[1][i].op \notin AliasCalls \cup MemberCalls

C3_UpdateThenAliasesThenMembers ==
    (pc[1] = "returned" /\ GroupsListed(1)) =>
        \A e \in 1..Len(lists) :
            InSeq(lists[e].name, existing_groups[1]) =>
                \E u, a, m \in Positions(1) :
                    /\ u < a /\ a < m
                    /\ log[1][u].entry = e /\ log[1][u].op = "groups.update"
                    /\ log[1][a].entry = e /\ log[1][a].op = "aliases.list"
                    /\ log[1][m].entry = e /\ log[1][m].op = "members.list"

\* ------------------------------------------------------------------ C4
\* C4 (as claimed): in a pass whose group listing succeeds, every name of the
\* union of the remote and the desired names gets exactly one transition:
\* create iff desired and not remote, delete iff remote and not desired,
\* update iff both.
C4_OneTransitionPerName ==
    (pc[1] = "returned" /\ GroupsListed(1)) =>
        \A n \in Range(existing_groups[1]) \cup Range(new_groups) :
            LET key == GroupKey(n)
                isRemote == InSeq(n, existing_groups[1])
                isDesired == InSeq(n, new_groups)
                created == Idx(1, "groups.insert", key)
                deleted == Idx(1, "groups.delete", key)
                updated == Idx(1, "aliases.list", key)
            IN  /\ created # {} <=> (isDesired /\ ~isRemote)
                /\ deleted # {} <=> (isRemote /\ ~isDesired)
                /\ updated # {} <=> (isRemote /\ isDesired)
                /\ Cardinality(created) + Cardinality(deleted)
                       + Cardinality(updated) = 1

\* ------------------------------------------------------------------ C5
\* C5 (as claimed): sync_mailinglists never raises to its caller, whichever
\* directory call fails.
C5_NeverRaises == pc[1] # "raised"

\* ------------------------------------------------------------------ C6
\* C6: if a page of the group listing fails, the pass returns and has issued
\* nothing but group listing calls: no group, alias or member insert, update
\* or delete, and no further call of any kind.
C6_ListingFailureAbortsPass ==
    \A p \in Procs :
        (\E i \in Positions(p) : log[p][i].op = "groups.list" /\ ~log[p][i].ok) =>
            /\ pc[p] = "returned"
            /\ \A j \in Positions(p) : log[p][j].op = "groups.list"
            /\ ~log[p][Len(log[p])].ok

\* The listing failed on its second page, with a desired list that names a
\* group to create.
C6_Witness ==
    /\ Len(log[1]) = 2
    /\ log[1][1].op = "groups.list" /\ log[1][1].ok
    /\ log[1][2].op = "groups.list" /\ ~log[1][2].ok
    /\ \E e \in 1..Len(lists) : lists[e].name \notin remoteGroups
    /\ pc[1] = "returned"

\* ------------------------------------------------------------------ C7
OnlyMemberListingsFail(p) ==
    \A i \in Positions(p) : ~log[p][i].ok => log[p][i].op = "members.list"
MemberListingFailed(p, e) ==
    \E i \in Positions(p) :
        log[p][i].entry = e /\ log[p][i].op = "members.list" /\ ~log[p][i].ok
Processed(p, e) ==
    \E i \in Positions(p) :
        log[p][i].entry = e /\ log[p][i].op \in {"groups.insert", "aliases.list"}

C9_ItemFailuresIgnored ==
    /\ \A e \in 1..Len(lists) :
          /\ ListingOk(1, e, "aliases.list") =>
                LET plan == Plan("aliases", Listed(1, e, "aliases.list"),
                                 DesiredAliases(e))
                IN  /\ IsPrefix(Issued(1, e, "aliases"), plan)
                    /\ AliasesLeft(1, e) => Issued(1, e, "aliases") = plan
          /\ MembersListingDone(1, e) =>
                LET plan == Plan("members", Listed(1, e, "members.list"),
                                 lists[e].addresses)
                IN  /\ IsPrefix(Issued(1, e, "members"), plan)
                    /\ MembersLeft(1, e) => Issued(1, e, "members") = plan
    /\ pc[1] = "raised" =>
          log[1][Len(log[1])].op \in {"groups.insert", "groups.delete", "aliases.list"}

\* A members.delete call failed although the directory could serve it, and
\* the next planned call of the same reconciliation was issued after it.
C9_Witness ==
    \E i \in Positions(1) :
        /\ i < Len(log[1])
        /\ log[1][i].op = "members.delete" /\ ~log[1][i].ok
        /\ log[1][i].arg \in remoteMembers[log[1][i].key]
        /\ log[1][i + 1].entry = log[1][i].entry
        /\ log[1][i + 1].op \in {"members.delete", "members.insert"}

\* ------------------------------------------------------------------ C10
\* C10 (as claimed): after a pass that returned with every call succeeding,
\* a second pass with the same desired list issues no group create or delete
\* and no alias or member insert or delete call.
C10_SecondPassIssuesNothing ==
    (pc[1] = "returned" /\ AllOk(1)) =>
        \A j \in Positions(2) : log[2][j].op \notin Mutations

\* ------------------------------------------------------------------ C11
\* The remove list and the insert list of a diff, against the set
\* differences they are meant to be.
ExactDiff(rem, ins, E, D) ==
    /\ Range(rem) = Range(E) \ Range(D)
    /\ Range(ins) = Range(D) \ Range(E)
    /\ Range(rem) \cap Range(ins) = {}

\* The call pass p made last, if it is a successful call op.
LastCallIs(p, op) ==
    /\ log[p] # <<>>
    /\ log[p][Len(log[p])].op = op
    /\ log[p][Len(log[p])].ok
LastCall(p) == log[p][Len(log[p])]

\* C11: for every existing collection E and desired collection D that a pass
\* meets (group names, member emails, alias addresses), the remove list holds
\* exactly the elements of E not in D, the insert list exactly the elements
\* of D not in E, and no element is in both.  The lists are looked at when
\* the pass has computed them, after the listing that gave E.
C11_DiffIsSetDifference ==
    /\ (LastCallIs(1, "groups.list") /\ pc[1] = "loop") =>
          ExactDiff(GroupRemoveList(1), GroupInsertList(1),
                    existing_groups[1], new_groups)
    /\ (LastCallIs(1, "members.list") /\ pc[1] # "members_list") =>
          ExactDiff(remove_list[1], insert_list[1], members_list[1],
                    lists[LastCall(1).entry].addresses)
    /\ LastCallIs(1, "aliases.list") =>
          ExactDiff(remove_list[1], insert_list[1], LastCall(1).page,
                    NewAliases(lists[LastCall(1).entry]))

\* A pass whose group diff has a stale and a missing name, and which has
\* listed an alias that is desired and a member that is not.
C11_Witness ==
    /\ GroupsListed(1)
    /\ GroupRemoveList(1) # <<>> /\ GroupInsertList(1) # <<>>
    /\ \E e \in 1..Len(lists) :
          /\ Range(Listed(1, e, "aliases.list")) \cap Range(NewAliases(lists[e])) # {}
          /\ Range(Listed(1, e, "members.list")) \ Range(lists[e].addresses) # {}

\* ------------------------------------------------------------------ C12
\* The desired groups that the group listing of pass p found in the
\* directory (positions in lists).
FoundRemotely(p) ==
    {e \in 1..Len(lists) : InSeq(lists[e].name, existing_groups[p])}
MembersConverged(e) ==
    remoteMembers[GroupKey(lists[e].name)] = Range(lists[e].addresses)
AliasesConverged(e) ==
    remoteAliases[GroupKey(lists[e].name)] = Range(DesiredAliases(e))

\* C12 (as claimed): after a pass in which every call succeeded, every
\* desired group that already existed remotely has exactly its desired
\* addresses as members and exactly its desired aliases, qualified with the
\* domain, as aliases.
C12_Convergence ==
    (pc[1] = "returned" /\ AllOk(1)) =>
        \A e \in FoundRemotely(1) : MembersConverged(e) /\ AliasesConverged(e)

\* ------------------------------------------------------------------ C13
\* The arguments of the successful calls op that pass p made for entry e.
Done(p, e, op) ==
    {log[p][i].arg : i \in {j \in Positions(p) :
        log[p][j].entry = e /\ log[p][j].op = op /\ log[p][j].ok}}
\* Entry e is the last entry of lists for which pass p has made a call.
LastFor(p, e) ==
    \A i \in Positions(p) :
        log[p][i].key = GroupKey(lists[e].name) => log[p][i].entry <= e
PagesNeeded(n) == IF n = 0 THEN 1 ELSE (n + PageSize - 1) \div PageSize

\* C13: the group listing and the member listing follow the page token until
\* a response has none: when a listing ends, the existing names are the
\* entries of all its pages, one call per page of the directory, and are all
\* the groups of the directory; the existing members of a group are all its
\* members.
C13_ListingsFollowCursor ==
    /\ (LastCallIs(1, "groups.list") /\ pc[1] = "loop") =>
          /\ existing_groups[1] = Listed(1, 0, "groups.list")
          /\ Len(EntryCalls(1, 0, {"groups.list"}))
                = PagesNeeded(Len(existing_groups[1]))
          /\ Range(existing_groups[1]) = remoteGroups
    /\ (LastCallIs(1, "members.list") /\ pc[1] # "members_list") =>
          LET e == LastCall(1).entry
          IN  /\ members_list[1] = Listed(1, e, "members.list")
              /\ Len(EntryCalls(1, e, {"members.list"}))
                    = PagesNeeded(Len(members_list[1]))
              /\ Range(members_list[1]) = remoteMembers[GroupKey(lists[e].name)]

\* Both listings took more than one page.
C13_Witness ==
    /\ Len(existing_groups[1]) > PageSize
    /\ LastCallIs(1, "members.list") /\ pc[1] # "members_list"
    /\ Len(members_list[1]) > PageSize

\* ------------------------------------------------------------------ C14
\* C14 (as claimed): the alias listing of a group returns all the aliases of
\* the group, those of a second or later page included: the existing aliases
\* used for the diff are all the aliases the directory holds for the group.
C14_AliasListingFollowsCursor ==
    \A e \in 1..Len(lists) :
        (ListingOk(1, e, "aliases.list") /\ LastFor(1, e)) =>
            Range(Listed(1, e, "aliases.list"))
              = (remoteAliases[GroupKey(lists[e].name)]
                   \ Done(1, e, "aliases.insert"))
                \cup Done(1, e, "aliases.delete")

\* ------------------------------------------------------------------ C16
ItemDeletes == {"aliases.delete", "members.delete"}
ItemInserts == {"aliases.insert", "members.insert"}
\* Number of calls op with argument arg that pass p made for group key, and
\* for entry e of lists.
CallsFor(p, key, op, arg) ==
    Cardinality({i \in Idx(p, op, key) : log[p][i].arg = arg})
CallsAt(p, e, op, arg) ==
    Cardinality({i \in Positions(p) :
        log[p][i].entry = e /\ log[p][i].op = op /\ log[p][i].arg = arg})
Count(x, s) == Cardinality({i \in 1..Len(s) : s[i] = x})
Wanted(e, op) ==
    IF op = "aliases.insert" THEN DesiredAliases(e) ELSE lists[e].addresses

OutsideSubset == Range(NameOrder) \ Range(new_groups)
\* Every call other than the group listing is made for a group of the list.
CallsInSubset ==
    \A i \in Positions(1) :
        log[1][i].op # "groups.list" =>
            \E e \in 1..Len(lists) : log[1][i].key = GroupKey(lists[e].name)
\* A step leaves every group outside the list as it is.
OutsideUnchanged ==
    \A n \in OutsideSubset :
        /\ (n \in remoteGroups') = (n \in remoteGroups)
        /\ remoteMembers'[GroupKey(n)] = remoteMembers[GroupKey(n)]
        /\ remoteAliases'[GroupKey(n)] = remoteAliases[GroupKey(n)]

\* C18: with an explicit list, no create, update, delete, alias or member
\* call is issued for a group whose name is not in the list, and no step of
\* the pass changes a remote group outside the list.
C18_SubsetFrame == [](CallsInSubset) /\ [][OutsideUnchanged]_vars

\* A pass over a list that leaves out a remote group with members has
\* returned after changing the directory.
C18_Witness ==
    /\ pc[1] = "returned"
    /\ \E n \in OutsideSubset :
          n \in remoteGroups /\ remoteMembers[GroupKey(n)] # {}
    /\ \E i \in Positions(1) : log[1][i].op \in Mutations /\ log[1][i].ok

\* ------------------------------------------------------------------ C19
\* Pass p took the create transition for entry e.
Created(p, e) == EntryCalls(p, e, {"groups.insert"}) # <<>>

\* C19: the create transition issues no alias call.  A pass makes alias
\* calls only for groups that its group listing found, none for a group it
\* creates; the aliases of a group created by the first pass are in the
\* directory only once the second pass, having found the group, has
\* inserted them.
C19_CreateIssuesNoAliasCall ==
    /\ \A p \in Procs : \A i \in Positions(p) :
          log[p][i].op \in AliasCalls =>
              /\ InSeq(lists[log[p][i].entry].name, existing_groups[p])
              /\ ~Created(p, log[p][i].entry)
    /\ \A e \in 1..Len(lists) :
          Created(1, e) =>
              \A a \in remoteAliases[GroupKey(lists[e].name)] :
                  /\ InSeq(lists[e].name, existing_groups[2])
                  /\ \E f \in 1..Len(lists) :
                        /\ lists[f].name = lists[e].name
                        /\ a \in Done(2, f, "aliases.insert")

\* The first pass has created a group that has a desired alias, and the
\* second pass has inserted the alias.
C19_Witness ==
    \E e \in 1..Len(lists) :
        /\ lists[e].name \in Done(1, e, "groups.insert")
        /\ EntryCalls(1, e, AliasCalls) = <<>>
        /\ pc[1] = "returned"
        /\ lists[e].aliases # <<>>
        /\ Range(DesiredAliases(e)) \subseteq Done(2, e, "aliases.insert")

\* ------------------------------------------------------------------ C17
\* Pass p has dispatched entry e of the desired list.
Dispatched(p, e) ==
    /\ GroupsListed(p)
    /\ idx[p] > e \/ (idx[p] = e /\ pc[p] # "loop")

\* C17: two passes running at the same time are not coordinated.  Each pass
\* decides from its own group listing alone: it issues a group insert for
\* exactly the entries whose name its listing did not hold, whatever the
\* other pass has created in the meantime.  (The interleaving of the claim is
\* the state C17_Witness.)
C17_PassesUncoordinated ==
    \A p \in Procs : \A e \in 1..Len(lists) :
        Dispatched(p, e) =>
            (Created(p, e) <=> ~InSeq(lists[e].name, existing_groups[p]))

\* Both passes listed the groups while a desired group was missing, and both
\* have issued the group insert for it: the one of pass 1 created the group,
\* the one of pass 2 was refused.
C17_Witness ==
    \E e \in 1..Len(lists) :
        /\ Occurrences(lists[e].name) = 1
        /\ ~InSeq(lists[e].name, existing_groups[1])
        /\ ~InSeq(lists[e].name, existing_groups[2])
        /\ lists[e].name \in Done(1, e, "groups.insert")
        /\ Created(2, e)
        /\ lists[e].name \notin Done(2, e, "groups.insert")

\* ------------------------------------------------------------------ C15
\* Descriptor d carries the seven fields of persisted mailing list m.
CarriesMailingList(d, m) ==
    /\ d.name = m.name /\ d.description = m.description
    /\ d.moderated = m.moderated /\ d.archived = m.archived
    /\ d.prefix = m.prefix
    /\ d.aliases = [i \in 1..Len(m.aliases) |-> m.aliases[i].alias]
    /\ d.addresses = m.all_addresses
\* Descriptor d carries the seven fields of automatic list a.
CarriesAutomatic(d, a) ==
    /\ d.name = a.name /\ d.description = a.description
    /\ d.moderated = a.moderated /\ d.archived = a.archived
    /\ d.prefix = a.prefix
    /\ d.aliases = a.aliases /\ d.addresses = a.addresses
Entered == pc[1] = "idle" /\ pc'[1] # "idle"

\* C15: on entry without a list, the desired list gets one descriptor per
\* persisted mailing list followed by one per automatic list, each with the
\* name, description, moderated, archived, prefix, aliases and addresses of
\* its source; on entry with a list, that list is the desired list as it
\* is and no source is consulted.
C15_DesiredListAssembly ==
    [][Entered =>
        IF lists_is_None
        THEN /\ Len(lists') = Len(MailingList_objects) + Len(automatic_lists)
             /\ \A i \in 1..Len(MailingList_objects) :
                   CarriesMailingList(lists'[i], MailingList_objects[i])
             /\ \A i \in 1..Len(automatic_lists) :
                   CarriesAutomatic(lists'[Len(MailingList_objects) + i],
                                    automatic_lists[i])
             /\ consulted' = {"MailingList.objects.all", "get_automatic_lists"}
        ELSE lists' = lists /\ consulted' = {}]_vars

\* A call without a list has assembled the desired list from a persisted
\* list that is moderated and not archived and has an alias and an address,
\* and from an automatic list.
C15_Witness ==
    /\ pc[1] # "idle"
    /\ lists_is_None
    /\ Len(MailingList_objects) = 1 /\ Len(automatic_lists) = 1
    /\ MailingList_objects[1].moderated /\ ~MailingList_objects[1].archived
    /\ MailingList_objects[1].aliases # <<>>
    /\ MailingList_objects[1].all_addresses # <<>>
    /\ Len(lists) = 2

\* ------------------------------------------------------------------ C20
\* The step is a request of the admin action with this name.
Requested(action) ==
    /\ admin_request'.action = action
    /\ message' # "" /\ UNCHANGED sync
\* The selected payments of the request that are Thalia Pay payments.
SelectedTpay ==
    {i \in admin_request'.queryset : payments[i].type = TPAY}

\* C20: add_to_new_batch creates a batch only when a selected payment has
\* type TPAY; it then attaches exactly the selected TPAY payments to the new
\* batch and leaves every other payment, the selected ones of another type
\* included, as it was; when no selected payment is TPAY no batch is created
\* and no payment changes.
C20_AddToNewBatch ==
    [][Requested("add_to_new_batch") =>
        IF SelectedTpay # {}
        THEN /\ Len(batches') = Len(batches) + 1
             /\ SubSeq(batches', 1, Len(batches)) = batches
             /\ \A i \in PaymentIds :
                   /\ payments'[i].type = payments[i].type
                   /\ payments'[i].batch =
                        IF i \in SelectedTpay THEN Len(batches')
                        ELSE payments[i].batch
        ELSE payments' = payments /\ batches' = batches]_vars

\* A request that selected a Thalia Pay payment and a payment of another
\* type has put the first in a new batch and left the second without one.
C20_Witness ==
    /\ admin_request.action = "add_to_new_batch"
    /\ message = "SUCCESS"
    /\ \E i, j \in admin_request.queryset :
          /\ payments[i].type = TPAY /\ payments[i].batch = Len(batches)
          /\ payments[j].type # TPAY /\ payments[j].batch = 0
    /\ \E k \in PaymentIds \ admin_request.queryset : TRUE

\* ------------------------------------------------------------------ C21
\* The last batch of the state before the step, 0 when there is none.
LastBatch == Len(batches)
\* The last batch exists and is not processed.
LastBatchOpen == LastBatch # 0 /\ ~batches[LastBatch].processed

\* C21: add_to_last_batch attaches the selected TPAY payments to the last
\* batch only when a last batch exists and is not processed, and reports a
\* success; when there is no batch, when the last batch is processed or when
\* no selected payment is TPAY, no payment's batch changes and an error is
\* reported. No batch is created or changed either way.
C21_AddToLastBatch ==
    [][Requested("add_to_last_batch") =>
        /\ batches' = batches
        /\ IF SelectedTpay # {} /\ LastBatchOpen
           THEN /\ message' = "SUCCESS"
                /\ \A i \in PaymentIds :
                      /\ payments'[i].type = payments[i].type
                      /\ payments'[i].batch =
                           IF i \in SelectedTpay THEN LastBatch
                           ELSE payments[i].batch
           ELSE /\ message' = "ERROR"
                /\ payments' = payments]_vars

\* A request that selected a Thalia Pay payment outside the last batch was
\* answered with an error because the last batch is processed, and the
\* payment is still outside it.
C21_Witness ==
    /\ admin_request.action = "add_to_last_batch"
    /\ message = "ERROR"
    /\ batches # <<>> /\ batches[Len(batches)].processed
    /\ \E i \in admin_request.queryset :
          payments[i].type = TPAY /\ payments[i].batch # Len(batches)

\* ------------------------------------------------------------------ C22
\* The payments attached to a processed batch.
InProcessedBatch ==
    {i \in PaymentIds :
        payments[i].batch # 0 /\ batches[payments[i].batch].processed}

\* C22: no step of the payments admin (add_to_new_batch, add_to_last_batch,
\* save_formset) changes the batch of a payment that is attached to a
\* processed batch.
C22_ProcessedBatchKeepsPayments ==
    [][\A i \in InProcessedBatch : payments'[i].batch = payments[i].batch]_vars

\* ------------------------------------------------------------------ C23
\* The last request was a permission check of this admin.
Checked(admin_name) ==
    admin_request.action = admin_name \o ".has_delete_permission"
\* The last request was a bulk delete_selected request on this changelist.
BulkDelete(changelist) ==
    /\ admin_request.request.method = "POST"
    /\ admin_request.request.action = "delete_selected"
    /\ admin_request.request.path = changelist

\* C23: has_delete_permission returns False for a payment attached to a
\* processed batch, for a processed batch, and for a bulk delete_selected
\* request whose selection contains such a payment or batch, whatever the
\* user's own permissions say.
C23_NoDeleteOfProcessed ==
    /\ Checked("PaymentAdmin") =>
          /\ admin_request.obj \in InProcessedBatch => returned = <<FALSE>>
          /\ BulkDelete(PaymentChangelist)
               /\ admin_request.request.selected \cap InProcessedBatch # {}
               => returned = <<FALSE>>
    /\ Checked("BatchAdmin") =>
          /\ admin_request.obj # 0 /\ batches[admin_request.obj].processed
               => returned = <<FALSE>>
          /\ BulkDelete(BatchChangelist)
               /\ (\E b \in admin_request.request.selected : batches[b].processed)
               => returned = <<FALSE>>

\* A user who has the delete permission sent a bulk delete of two payments,
\* one of them attached to a processed batch, and the check for the request
\* alone returned False.
C23_Witness ==
    /\ Checked("PaymentAdmin")
    /\ admin_request.obj = 0
    /\ BulkDelete(PaymentChangelist)
    /\ admin_request.request.user_has_perm
    /\ \E i, j \in admin_request.request.selected :
          i \in InProcessedBatch /\ j \notin InProcessedBatch
    /\ returned = <<FALSE>>

\* ------------------------------------------------------------------ C24
\* The last request went to this view.
Viewed(view) == media_request.view = view
\* The 'sig' parameter of the last request, <<>> when it has none.
Sig == media_request.request.GET_sig
\* The parameter is a signature of the site not older than three hours.
SigValid == Sig # <<>> /\ Sig[1].genuine /\ Sig[1].age <= max_age
\* The signed path is the requested one and the signed storage has the file.
SignedFileRequested ==
    /\ Sig[1].sig_info.serve_path = media_request.request.request_path
    /\ storage[Sig[1].sig_info.storage][Sig[1].sig_info.serve_path] # <<>>

\* C24: private_media serves or redirects to a file only when the request
\* carries a 'sig' parameter that verifies and is not older than three
\* hours, the signed serve_path equals the requested path and the file
\* exists in the signed storage; a missing, invalid or expired signature
\* yields PermissionDenied, a path mismatch or missing file yields Http404.
C24_PrivateMedia ==
    Viewed("private_media") =>
        /\ media_response \in {"redirect", "sendfile"}
             <=> (SigValid /\ SignedFileRequested)
        /\ ~SigValid => media_response = "PermissionDenied"
        /\ SigValid /\ ~SignedFileRequested => media_response = "Http404"

\* A signature of the site that is four hours old, for a file that exists
\* under the requested path, was refused.
C24_Witness ==
    /\ Viewed("private_media")
    /\ Sig # <<>> /\ Sig[1].genuine /\ Sig[1].age = max_age + 1
    /\ SignedFileRequested
    /\ media_response = "PermissionDenied"

\* ------------------------------------------------------------------ C25
\* The step is a request to get_thumbnail that passed the signature check
\* and the check of the requested path.
ThumbnailStep ==
    /\ media_request'.view = "get_thumbnail"
    /\ media_request'.request.GET_sig # <<>>
    /\ media_request'.request.GET_sig[1].genuine
    /\ media_request'.request.GET_sig[1].age <= max_age
    /\ endswith(Thumb, media_request'.request.request_path)
\* The storage the request's signature names, and its two files before the
\* step.
SignedStorage == media_request'.request.GET_sig[1].sig_info.storage
OriginalFile == storage[SignedStorage][Original]
ThumbFile == storage[SignedStorage][Thumb]
\* The original is strictly later than the stored thumbnail.
OriginalLater ==
    OriginalFile # <<>> /\ ThumbFile # <<>> /\ OriginalFile[1] > ThumbFile[1]
\* The stored thumbnail is at least as recent as the original.
ThumbRecent ==
    OriginalFile # <<>> /\ ThumbFile # <<>> /\ ThumbFile[1] >= OriginalFile[1]
\* The step deleted the stored thumbnail and saved a new one, and nothing
\* else.
Regenerated ==
    /\ storage_calls' = << <<"delete", SignedStorage, Thumb>>,
                           <<"save", SignedStorage, Thumb>> >>
    /\ storage'[SignedStorage][Thumb] # <<>>
    /\ \A class \in StorageClasses : \A name \in FileNames :
          <<class, name>> # <<SignedStorage, Thumb>>
            => storage'[class][name] = storage[class][name]
\* The step made no delete and no save.
NotRegenerated == storage_calls' = <<>> /\ storage' = storage

OriginalUsable == OriginalFile # <<>> /\ OriginalFile[1] # 0

====
